---- MODULE Spec2Model ----
(***************************************************************************)
(* Model of packages/server/lib/video_capture.js: the capture session      *)
(* returned by start() (writeVideoFrame / endVideoCapture and the encoder  *)
(* event handlers of startCapturing) and the compression pass process().   *)
(***************************************************************************)
EXTENDS Integers, Sequences, FiniteSets, TLC

\* ---- bounds of the model ------------------------------------------------
\* number of writeVideoFrame calls a producer makes in one run
MaxCalls == 3
\* number of endVideoCapture calls a caller makes in one run
MaxEnds == 2
\* number of 'progress' events the compression encoder emits in one run
MaxProgress == 3

\* number of 'stderr' events the probing encoder emits in one run
MaxStderr == 2

\* frame payloads handed to writeVideoFrame
Frames == {"f1", "f2"}
\* errors an encoder can report with its 'error' event
Errs == {"e1", "e2"}
\* value of a promise that has no rejection reason
NoErr == "none"
\* timemarks <<hours, minutes, seconds>> an encoder reports (HH:MM:SS)
Timemarks == {<<0, 0, 0>>, <<0, 0, 5>>, <<0, 0, 10>>, <<0, 1, 0>>}

\* video codec names an encoder reports in its codecData
Codecs == {"h264", "vp8"}

VARIABLES
  \* ---- capture session: the closure variables of start() ----
  done,          \* let done = false
  written,       \* let written = false
  logErrors,     \* let logErrors = true
  wantsWrite,    \* let wantsWrite = true
  skipped,       \* let skipped = 0
  ended,         \* const ended = deferredPromise(): [state, err]
  pt,            \* the PassThrough sink: [buf, needDrain, drainListeners, ending]
  cmd,           \* lifecycle of the capture encoder: spawning/started/errored/ended
  innerStart,    \* the promise startCapturing() returns: pending/resolved
  startPromise,  \* the promise start() returns (the .then of it): pending/resolved
  onErrorCalls,  \* arguments options.onError has been invoked with
  \* ---- history of the calls made on the session ----
  calls,         \* one entry per writeVideoFrame call: [frame, wants, done, enc] as found
  nEnd,          \* number of endVideoCapture calls made
  \* ---- compression pass: the closure variables of process() ----
  total,         \* let total = null (0 .. : seconds once codecData was seen)
  pCmd,          \* lifecycle of the compression encoder: running/errored/ended
  pCodecSent,    \* whether the encoder has emitted its 'codecData' event
  pPromise,      \* the promise process() returns: [state, err]
  progressCalls, \* arguments onProgress has been invoked with: [num, den, by]
  marks,         \* elapsed seconds of the 'progress' events received, in order
  moveState,     \* fs.moveAsync(cname, name): none/pending/done/failed
  nameFile,      \* content of the file at name: raw/compressed
  pErr,          \* the error the compression encoder reported, NoErr if none
  pThenRan,      \* whether the .then continuation of the move has run
  \* ---- copy(src, dest) ----
  copyState,     \* fs.copyAsync(src, dest): none/pending/ok/ENOENT/EACCES
  copyPromise,   \* the promise copy() returns: [state, err]
  destFile,      \* content of the file at dest: old/copied
  \* ---- codec probe: getCodecData(src) ----
  gInner,        \* the promise the 'codecData' handler resolves: [state, err, data]
  gPromise,      \* the promise getCodecData returns (end of the .tap chain)
  gCmd,          \* lifecycle of the probing encoder: running/errored/ended
  gCodecSent,    \* whether the encoder has emitted its 'codecData' event
  gDebug,        \* the debug() calls made, in order
  gUncaught      \* the 'error' emitted with no listener attached, NoErr if none

captureVars == <<done, written, logErrors, wantsWrite, skipped, ended, pt, cmd,
                 innerStart, startPromise, onErrorCalls, calls, nEnd>>
processVars == <<total, pCmd, pCodecSent, pPromise, progressCalls, marks,
                 moveState, nameFile, pErr, pThenRan>>
copyVars == <<copyState, copyPromise, destFile>>
probeVars == <<gInner, gPromise, gCmd, gCodecSent, gDebug, gUncaught>>
vars == <<captureVars, processVars, copyVars, probeVars>>

\* total before any codecData event (let total = null)
NullTotal == -1

\* ---- promises -------------------------------------------------------------
deferredPromise == [state |-> "pending", err |-> NoErr]

\* resolve() of a promise: settles it once, later calls do nothing
Resolve(p) == IF p.state = "pending" THEN [state |-> "resolved", err |-> NoErr] ELSE p

\* reject(err) of a promise: settles it once, later calls do nothing
Reject(p, err) == IF p.state = "pending" THEN [state |-> "rejected", err |-> err] ELSE p

\* ---- the PassThrough sink -------------------------------------------------
\* pt.end(): marks the stream as ending; on an ending stream it does nothing
ptEnd(s) == [s EXCEPT !.ending = TRUE]

\* pt.write(data) returning ret: the chunk is taken in either case, and a
\* false return arms the stream's 'drain' notification
ptWrite(s, data, ret) ==
  [s EXCEPT !.buf = Append(@, data), !.needDrain = @ \/ ~ret]

\* pt.once('drain', listener)
ptOnceDrain(s) == [s EXCEPT !.drainListeners = @ + 1]

\* ---- initial state: start(name, options) has just been called -------------
InitCapture ==
  /\ done = FALSE
  /\ written = FALSE
  /\ logErrors = TRUE
  /\ wantsWrite = TRUE
  /\ skipped = 0
  /\ ended = deferredPromise
  /\ pt = [buf |-> <<>>, needDrain |-> FALSE, drainListeners |-> 0, ending |-> FALSE]
  /\ cmd = "spawning"
  /\ innerStart = "pending"
  /\ startPromise = "pending"
  /\ onErrorCalls = <<>>
  /\ calls = <<>>
  /\ nEnd = 0

\* ---- capture session operations -------------------------------------------
\* variants of endVideoCapture with one slip each
\* slip: every call creates the promise it returns (deferredPromise() inside)
endVideoCapture_FreshPromise ==
  /\ startPromise = "resolved"
  /\ nEnd < MaxEnds
  /\ done' = TRUE
  /\ logErrors' = IF ~written THEN FALSE ELSE logErrors
  /\ pt' = ptEnd(pt)
  /\ ended' = deferredPromise
  /\ nEnd' = nEnd + 1
  /\ UNCHANGED <<written, wantsWrite, skipped, cmd, startPromise, onErrorCalls, calls>>

\* slip: the call settles the promise it returns
endVideoCapture_Resolves ==
  /\ startPromise = "resolved"
  /\ nEnd < MaxEnds
  /\ done' = TRUE
  /\ logErrors' = IF ~written THEN FALSE ELSE logErrors
  /\ pt' = ptEnd(pt)
  /\ ended' = Resolve(ended)
  /\ nEnd' = nEnd + 1
  /\ UNCHANGED <<written, wantsWrite, skipped, cmd, startPromise, onErrorCalls, calls>>

\* slip: error reporting is turned off whether or not a frame was written
endVideoCapture_AlwaysSuppresses ==
  /\ startPromise = "resolved"
  /\ nEnd < MaxEnds
  /\ done' = TRUE
  /\ logErrors' = FALSE
  /\ pt' = ptEnd(pt)
  /\ nEnd' = nEnd + 1
  /\ UNCHANGED <<written, wantsWrite, skipped, ended, cmd, startPromise,
                 onErrorCalls, calls>>

\* endVideoCapture(): the caller holds it once start()'s promise has resolved
endVideoCapture ==
  /\ startPromise = "resolved"
  /\ nEnd < MaxEnds
  /\ done' = TRUE
  /\ logErrors' = IF ~written THEN FALSE ELSE logErrors
  /\ pt' = ptEnd(pt)
  /\ nEnd' = nEnd + 1
  /\ UNCHANGED <<written, wantsWrite, skipped, ended, cmd, startPromise,
                 onErrorCalls, calls>>

\* variants of writeVideoFrame with one slip each: isDone stands for the
\* `if (done)` test, gateOpen for the `if (wantsWrite)` test, and countAll
\* counts a frame as skipped whether or not it was forwarded
writeVideoFrame_Variant(data, ret, isDone, gateOpen, countAll) ==
  /\ startPromise = "resolved"
  /\ Len(calls) < MaxCalls
  /\ calls' = Append(calls, [frame |-> data, wants |-> wantsWrite,
                             done |-> done, enc |-> cmd])
  /\ IF isDone
       THEN UNCHANGED <<written, wantsWrite, skipped, pt>>
       ELSE /\ written' = TRUE
            /\ IF gateOpen
                 THEN /\ wantsWrite' = ret
                      /\ pt' = IF ret THEN ptWrite(pt, data, ret)
                                      ELSE ptOnceDrain(ptWrite(pt, data, ret))
                      /\ skipped' = IF countAll THEN skipped + 1 ELSE skipped
                 ELSE /\ skipped' = skipped + 1
                      /\ UNCHANGED <<wantsWrite, pt>>
  /\ UNCHANGED <<done, logErrors, ended, cmd, startPromise, onErrorCalls,
                 nEnd>>

\* slip: the frame is forwarded without looking at wantsWrite
writeVideoFrame_NoGate(data, ret) ==
  writeVideoFrame_Variant(data, ret, done, TRUE, FALSE)

\* slip: skipped is incremented for forwarded frames too
writeVideoFrame_CountsAll(data, ret) ==
  writeVideoFrame_Variant(data, ret, done, wantsWrite, TRUE)

\* slip: the `if (done) return` test is missing
writeVideoFrame_NoDoneCheck(data, ret) ==
  writeVideoFrame_Variant(data, ret, FALSE, wantsWrite, FALSE)

\* slip: frames are also dropped once the encoder has errored or ended
writeVideoFrame_DropsAfterExit(data, ret) ==
  writeVideoFrame_Variant(data, ret, done \/ cmd \in {"errored", "ended"},
                          wantsWrite, FALSE)

\* slip: the frame whose pt.write returned false is counted as skipped
writeVideoFrame_CountsBlocked(data, ret) ==
  /\ startPromise = "resolved"
  /\ Len(calls) < MaxCalls
  /\ calls' = Append(calls, [frame |-> data, wants |-> wantsWrite,
                             done |-> done, enc |-> cmd])
  /\ IF done
       THEN UNCHANGED <<written, wantsWrite, skipped, pt>>
       ELSE /\ written' = TRUE
            /\ IF wantsWrite
                 THEN /\ wantsWrite' = ret
                      /\ pt' = IF ret THEN ptWrite(pt, data, ret)
                                      ELSE ptOnceDrain(ptWrite(pt, data, ret))
                      /\ skipped' = IF ret THEN skipped ELSE skipped + 1
                 ELSE /\ skipped' = skipped + 1
                      /\ UNCHANGED <<wantsWrite, pt>>
  /\ UNCHANGED <<done, logErrors, ended, cmd, startPromise, onErrorCalls,
                 nEnd>>

\* slip: start() hands writeVideoFrame out at once, not on the 'start' event
writeVideoFrame_BeforeStart(data, ret) ==
  /\ Len(calls) < MaxCalls
  /\ calls' = Append(calls, [frame |-> data, wants |-> wantsWrite,
                             done |-> done, enc |-> cmd])
  /\ IF done
       THEN UNCHANGED <<written, wantsWrite, skipped, pt>>
       ELSE /\ written' = TRUE
            /\ IF wantsWrite
                 THEN /\ wantsWrite' = ret
                      /\ pt' = IF ret THEN ptWrite(pt, data, ret)
                                      ELSE ptOnceDrain(ptWrite(pt, data, ret))
                      /\ UNCHANGED skipped
                 ELSE /\ skipped' = skipped + 1
                      /\ UNCHANGED <<wantsWrite, pt>>
  /\ UNCHANGED <<done, logErrors, ended, cmd, startPromise, onErrorCalls,
                 nEnd>>

\* writeVideoFrame(data), where pt.write(data) returns ret
writeVideoFrame(data, ret) ==
  /\ startPromise = "resolved"
  /\ Len(calls) < MaxCalls
  /\ calls' = Append(calls, [frame |-> data, wants |-> wantsWrite,
                             done |-> done, enc |-> cmd])
  /\ IF done
       THEN UNCHANGED <<written, wantsWrite, skipped, pt>>
       ELSE /\ written' = TRUE
            /\ IF wantsWrite
                 THEN /\ wantsWrite' = ret
                      /\ pt' = IF ret THEN ptWrite(pt, data, ret)
                                      ELSE ptOnceDrain(ptWrite(pt, data, ret))
                      /\ UNCHANGED skipped
                 ELSE /\ skipped' = skipped + 1
                      /\ UNCHANGED <<wantsWrite, pt>>
  /\ UNCHANGED <<done, logErrors, ended, cmd, startPromise, onErrorCalls,
                 nEnd>>

\* slip: the listener is added with pt.on, so it stays after it has run
ptDrain_KeepsListener ==
  /\ pt.needDrain
  /\ wantsWrite' = IF pt.drainListeners > 0 THEN TRUE ELSE wantsWrite
  /\ pt' = [pt EXCEPT !.needDrain = FALSE]
  /\ UNCHANGED <<done, written, logErrors, skipped, ended, cmd, startPromise,
                 onErrorCalls, calls, nEnd>>

\* the sink emits 'drain': every once('drain') listener runs and is removed
ptDrain ==
  /\ pt.needDrain
  /\ wantsWrite' = IF pt.drainListeners > 0 THEN TRUE ELSE wantsWrite
  /\ pt' = [pt EXCEPT !.needDrain = FALSE, !.drainListeners = 0]
  /\ UNCHANGED <<done, written, logErrors, skipped, ended, cmd, startPromise,
                 onErrorCalls, calls, nEnd>>

\* the encoder emits 'start': the promise of startCapturing() is resolved
onStart ==
  /\ cmd = "spawning"
  /\ cmd' = "started"
  /\ innerStart' = "resolved"
  /\ UNCHANGED <<done, written, logErrors, wantsWrite, skipped, ended, pt,
                 startPromise, onErrorCalls, calls, nEnd>>

\* the .then continuation of start() runs, on a later turn than the 'start'
\* handler: the promise start() returns is resolved with the session's api
startThen ==
  /\ innerStart = "resolved"
  /\ startPromise = "pending"
  /\ startPromise' = "resolved"
  /\ UNCHANGED <<done, written, logErrors, wantsWrite, skipped, ended, pt, cmd,
                 innerStart, onErrorCalls, calls, nEnd>>

\* variants of the capture 'error' handler with one slip each
\* slip: options.onError is invoked whatever logErrors says
onError_AlwaysReports(err) ==
  /\ cmd \in {"spawning", "started"}
  /\ cmd' = "errored"
  /\ onErrorCalls' = Append(onErrorCalls, err)
  /\ ended' = Reject(ended, err)
  /\ UNCHANGED <<done, written, logErrors, wantsWrite, skipped, pt,
                 startPromise, calls, nEnd>>

\* slip: with logErrors false the error is swallowed and the promise resolves
onError_Swallows(err) ==
  /\ cmd \in {"spawning", "started"}
  /\ cmd' = "errored"
  /\ onErrorCalls' = IF logErrors THEN Append(onErrorCalls, err) ELSE onErrorCalls
  /\ ended' = IF logErrors THEN Reject(ended, err) ELSE Resolve(ended)
  /\ UNCHANGED <<done, written, logErrors, wantsWrite, skipped, pt,
                 startPromise, calls, nEnd>>

\* the encoder emits 'error' with err (its one terminal event)
onError(err) ==
  /\ cmd \in {"spawning", "started"}
  /\ cmd' = "errored"
  /\ onErrorCalls' = IF logErrors THEN Append(onErrorCalls, err) ELSE onErrorCalls
  /\ ended' = Reject(ended, err)
  /\ UNCHANGED <<done, written, logErrors, wantsWrite, skipped, pt,
                 startPromise, calls, nEnd>>

\* the encoder emits 'end' (its one terminal event); an encoder reading
\* image2pipe from its input pipe finishes only once that input was closed
onEnd ==
  /\ cmd = "started"
  /\ pt.ending
  /\ cmd' = "ended"
  /\ ended' = Resolve(ended)
  /\ UNCHANGED <<done, written, logErrors, wantsWrite, skipped, pt,
                 startPromise, onErrorCalls, calls, nEnd>>

\* ---- compression pass -------------------------------------------------------
\* utils.timemarkToSeconds of an HH:MM:SS timemark
timemarkToSeconds(t) == t[1] * 3600 + t[2] * 60 + t[3]

InitProcess ==
  /\ total = NullTotal
  /\ pCmd = "running"
  /\ pCodecSent = FALSE
  /\ pPromise = deferredPromise
  /\ progressCalls = <<>>
  /\ marks = <<>>
  /\ moveState = "none"
  /\ nameFile = "raw"
  /\ pErr = NoErr
  /\ pThenRan = FALSE

\* onProgress(value): the value is the quotient num / den, reported by the
\* 'progress' handler or by the 'end' handler
onProgress(log, num, den, by) == Append(log, [num |-> num, den |-> den, by |-> by])

\* the encoder emits 'codecData' (once per run) with data.duration
pCodecData(duration) ==
  /\ pCmd = "running"
  /\ ~pCodecSent
  /\ pCodecSent' = TRUE
  /\ total' = timemarkToSeconds(duration)
  /\ UNCHANGED <<pCmd, pPromise, progressCalls, marks, moveState, nameFile, pErr>>

\* variant of the compression 'progress' handler
\* slip: the `if (!total) return` test is missing (x / null is x / 0)
pProgress_NoBail(timemark) ==
  /\ pCmd = "running"
  /\ Len(marks) < MaxProgress
  /\ marks' = Append(marks, timemarkToSeconds(timemark))
  /\ progressCalls' =
       onProgress(progressCalls, timemarkToSeconds(timemark),
                  IF total = NullTotal THEN 0 ELSE total, "progress")
  /\ UNCHANGED <<total, pCmd, pCodecSent, pPromise, moveState, nameFile, pErr>>

\* the encoder emits 'progress' with progress.timemark
pProgress(timemark) ==
  /\ pCmd = "running"
  /\ Len(marks) < MaxProgress
  /\ marks' = Append(marks, timemarkToSeconds(timemark))
  /\ progressCalls' =
       IF total = NullTotal \/ total = 0
         THEN progressCalls
         ELSE onProgress(progressCalls, timemarkToSeconds(timemark), total, "progress")
  /\ UNCHANGED <<total, pCmd, pCodecSent, pPromise, moveState, nameFile, pErr>>

\* variant of the compression 'error' handler
\* slip: the handler goes on to the completion steps of the 'end' handler
pError_Finishes(err) ==
  /\ pCmd = "running"
  /\ pCmd' = "errored"
  /\ pErr' = err
  /\ pPromise' = Reject(pPromise, err)
  /\ progressCalls' = onProgress(progressCalls, 1, 1, "end")
  /\ moveState' = "pending"
  /\ UNCHANGED <<total, pCodecSent, marks, nameFile>>

\* the encoder emits 'error' with err (its one terminal event)
pError(err) ==
  /\ pCmd = "running"
  /\ pCmd' = "errored"
  /\ pErr' = err
  /\ pPromise' = Reject(pPromise, err)
  /\ UNCHANGED <<total, pCodecSent, progressCalls, marks, moveState, nameFile>>

\* variants of the compression 'end' handler with one slip each
\* slip: resolve() is called in the handler, not in the move's continuation
pEnd_ResolvesAtOnce ==
  /\ pCmd = "running"
  /\ pCmd' = "ended"
  /\ progressCalls' = onProgress(progressCalls, 1, 1, "end")
  /\ moveState' = "pending"
  /\ pPromise' = Resolve(pPromise)
  /\ UNCHANGED <<total, pCodecSent, marks, nameFile, pErr>>

\* slip: the final onProgress(1) is made only when the total is known
pEnd_NeedsTotal ==
  /\ pCmd = "running"
  /\ pCmd' = "ended"
  /\ progressCalls' = IF total = NullTotal \/ total = 0
                        THEN progressCalls
                        ELSE onProgress(progressCalls, 1, 1, "end")
  /\ moveState' = "pending"
  /\ UNCHANGED <<total, pCodecSent, pPromise, marks, nameFile, pErr>>

\* the encoder emits 'end' (its one terminal event): onProgress(1), then the
\* move of cname over name is started
pEnd ==
  /\ pCmd = "running"
  /\ pCmd' = "ended"
  /\ progressCalls' = onProgress(progressCalls, 1, 1, "end")
  /\ moveState' = "pending"
  /\ UNCHANGED <<total, pCodecSent, pPromise, marks, nameFile, pErr>>

\* fs.moveAsync(cname, name, {overwrite: true}) on the file at name
moveAsync(file, ok) == IF ok THEN "compressed" ELSE file

\* the promise of fs.moveAsync settles: fulfilled (ok) or rejected
pMoveSettled(ok) ==
  /\ moveState = "pending"
  /\ moveState' = IF ok THEN "done" ELSE "failed"
  /\ nameFile' = moveAsync(nameFile, ok)
  /\ UNCHANGED <<total, pCmd, pCodecSent, pPromise, progressCalls, marks, pErr>>

\* the continuation .then(() => resolve()) of a fulfilled move runs, on a
\* later turn than the one in which the move settled; a rejected move has no
\* continuation
pMoveThen ==
  /\ moveState = "done"
  /\ ~pThenRan
  /\ pThenRan' = TRUE
  /\ pPromise' = Resolve(pPromise)
  /\ UNCHANGED <<total, pCmd, pCodecSent, progressCalls, marks, moveState,
                 nameFile, pErr>>

\* ---- copy(src, dest) -------------------------------------------------------
InitCopy ==
  /\ copyState = "none"
  /\ copyPromise = deferredPromise
  /\ destFile = "old"

\* fs.copyAsync(src, dest, {overwrite: true}) on the file at dest
copyAsync(file, outcome) == IF outcome = "ok" THEN "copied" ELSE file

\* copy(src, dest) is called: the copy is started
copy ==
  /\ copyState = "none"
  /\ copyState' = "pending"
  /\ UNCHANGED <<copyPromise, destFile>>

\* the promise of fs.copyAsync settles: fulfilled, or rejected with a code
copySettled(outcome) ==
  /\ copyState = "pending"
  /\ copyState' = outcome
  /\ destFile' = copyAsync(destFile, outcome)
  /\ UNCHANGED copyPromise

\* the .catch({ code: 'ENOENT' }, () => {}) link runs on a later turn: a
\* fulfilled copy and an ENOENT resolve, any other error rejects
copyCatch ==
  /\ copyState \in {"ok", "ENOENT", "EACCES"}
  /\ copyPromise.state = "pending"
  /\ copyPromise' = IF copyState = "EACCES" THEN Reject(copyPromise, "EACCES")
                                            ELSE Resolve(copyPromise)
  /\ UNCHANGED <<copyState, destFile>>

\* ---- codec probe ----------------------------------------------------------
\* value of a promise that was not resolved with codec data
NoData == [duration |-> <<0, 0, 0>>, video |-> "none"]

InitProbe ==
  /\ gInner = [state |-> "pending", err |-> NoErr, data |-> NoData]
  /\ gPromise = [state |-> "pending", err |-> NoErr, data |-> NoData]
  /\ gCmd = "running"
  /\ gCodecSent = FALSE
  /\ gDebug = <<>>
  /\ gUncaught = NoErr

\* the probing encoder emits 'stderr': the line is logged
gStderr ==
  /\ gCmd = "running"
  /\ Len(SelectSeq(gDebug, LAMBDA m : m = "get codecData stderr log")) < MaxStderr
  /\ gDebug' = Append(gDebug, "get codecData stderr log")
  /\ UNCHANGED <<gInner, gPromise, gCmd, gCodecSent, gUncaught>>

\* the probing encoder emits 'codecData' (once per run): the handler is
\* resolve itself, which settles the promise of the executor
gCodecData(data) ==
  /\ gCmd = "running"
  /\ ~gCodecSent
  /\ gCodecSent' = TRUE
  /\ gInner' = IF gInner.state = "pending"
                 THEN [state |-> "resolved", err |-> NoErr, data |-> data]
                 ELSE gInner
  /\ UNCHANGED <<gPromise, gCmd, gDebug, gUncaught>>

\* the .tap continuation runs, on a later turn than the handler: it logs the
\* codec data and the promise getCodecData returns takes the same value
gTap ==
  /\ gInner.state = "resolved"
  /\ gPromise.state = "pending"
  /\ gDebug' = Append(gDebug, "codecData")
  /\ gPromise' = gInner
  /\ UNCHANGED <<gInner, gCmd, gCodecSent, gUncaught>>

\* the probing encoder emits 'error' (its one terminal event): getCodecData
\* attaches no 'error' listener, so the emitter throws it and nothing is
\* settled
gError(err) ==
  /\ gCmd = "running"
  /\ gCmd' = "errored"
  /\ gUncaught' = err
  /\ UNCHANGED <<gInner, gPromise, gCodecSent, gDebug>>

\* the probing encoder emits 'end' (its one terminal event), which it does
\* only after it has read the input and reported its codec data
gEnd ==
  /\ gCmd = "running"
  /\ gCodecSent
  /\ gCmd' = "ended"
  /\ UNCHANGED <<gInner, gPromise, gCodecSent, gDebug, gUncaught>>

Init == InitCapture /\ InitProcess /\ InitCopy /\ InitProbe

Next ==
  \/ /\ endVideoCapture
     /\ UNCHANGED <<innerStart, processVars, copyVars, probeVars>>
  \/ /\ \E data \in Frames, ret \in BOOLEAN : writeVideoFrame(data, ret)
     /\ UNCHANGED <<innerStart, processVars, copyVars, probeVars>>
  \/ /\ ptDrain
     /\ UNCHANGED <<innerStart, processVars, copyVars, probeVars>>
  \/ /\ onStart
     /\ UNCHANGED <<processVars, copyVars, probeVars>>
  \/ /\ startThen
     /\ UNCHANGED <<processVars, copyVars, probeVars>>
  \/ /\ \E err \in Errs : onError(err)
     /\ UNCHANGED <<innerStart, processVars, copyVars, probeVars>>
  \/ /\ onEnd
     /\ UNCHANGED <<innerStart, processVars, copyVars, probeVars>>

\* a capture session from start() on
Spec == Init /\ [][Next]_vars

NextProcess ==
  \/ /\ \E duration \in Timemarks : pCodecData(duration)
     /\ UNCHANGED <<pThenRan, captureVars, copyVars, probeVars>>
  \/ /\ \E timemark \in Timemarks : pProgress(timemark)
     /\ UNCHANGED <<pThenRan, captureVars, copyVars, probeVars>>
  \/ /\ \E err \in Errs : pError(err)
     /\ UNCHANGED <<pThenRan, captureVars, copyVars, probeVars>>
  \/ /\ pEnd
     /\ UNCHANGED <<pThenRan, captureVars, copyVars, probeVars>>
  \/ /\ \E ok \in BOOLEAN : pMoveSettled(ok)
     /\ UNCHANGED <<pThenRan, captureVars, copyVars, probeVars>>
  \/ /\ pMoveThen
     /\ UNCHANGED <<captureVars, copyVars, probeVars>>
  \/ /\ copy
     /\ UNCHANGED <<captureVars, processVars, probeVars>>
  \/ /\ \E outcome \in {"ok", "ENOENT", "EACCES"} : copySettled(outcome)
     /\ UNCHANGED <<captureVars, processVars, probeVars>>
  \/ /\ copyCatch
     /\ UNCHANGED <<captureVars, processVars, probeVars>>

\* one run of process(name, cname, videoCompression, onProgress), and one
\* copy(src, dest) onto another file
SpecProcess == Init /\ [][NextProcess]_vars

NextProbe ==
  \/ /\ gStderr
     /\ UNCHANGED <<captureVars, processVars, copyVars>>
  \/ /\ \E data \in [duration : Timemarks, video : Codecs] : gCodecData(data)
     /\ UNCHANGED <<captureVars, processVars, copyVars>>
  \/ /\ gTap
     /\ UNCHANGED <<captureVars, processVars, copyVars>>
  \/ /\ \E err \in Errs : gError(err)
     /\ UNCHANGED <<captureVars, processVars, copyVars>>
  \/ /\ gEnd
     /\ UNCHANGED <<captureVars, processVars, copyVars>>

\* one run of getCodecData(src)
SpecProbe == Init /\ [][NextProbe]_vars

\* ==== properties of the capture session ====================================

\* the frames of the calls in h that found wantsWrite true, in call order
RECURSIVE FramesFoundGateOpen(_)
FramesFoundGateOpen(h) ==
  IF h = <<>> THEN <<>>
  ELSE IF Head(h).wants THEN <<Head(h).frame>> \o FramesFoundGateOpen(Tail(h))
       ELSE FramesFoundGateOpen(Tail(h))

\* a step that is a writeVideoFrame call
IsWriteCall == Len(calls') = Len(calls) + 1

\* a step that is an endVideoCapture call
IsEndCall == nEnd' = nEnd + 1

\* a step in which the capture encoder emits 'error'
IsErrorEvent == cmd # "errored" /\ cmd' = "errored"

\* endVideoCapture was called, and before every writeVideoFrame call
EndedBeforeAnyWrite == nEnd > 0 /\ \A i \in 1..Len(calls) : calls[i].done

\* C1: while endVideoCapture has not been called, the frames handed to the
\* sink are exactly the arguments of the writeVideoFrame calls that found
\* wantsWrite true, in call order, each once.
C1_SinkIsAcceptedFramesInOrder ==
  nEnd = 0 => pt.buf = FramesFoundGateOpen(calls)

\* a skipped call lies between two forwarded calls with different frames
C1_Witness ==
  /\ nEnd = 0
  /\ Len(calls) = 3
  /\ calls[1].wants /\ ~calls[2].wants /\ calls[3].wants
  /\ calls[1].frame # calls[3].frame
  /\ Len(pt.buf) = 2

\* C2 as stated: when endVideoCapture was called before any writeVideoFrame
\* call and the encoder then emits 'error', the promise is not rejected.
C2_NotRejectedWhenEndedFirst ==
  [][IsErrorEvent /\ EndedBeforeAnyWrite => ended'.state # "rejected"]_vars

\* C2 amended: calling endVideoCapture before any writeVideoFrame call turns
\* error reporting off; an 'error' the encoder emits afterwards is not passed
\* to options.onError, but it rejects the promise with that error, and the
\* promise is resolved only if the encoder emits 'end'.
C2_RejectedButNotReported ==
  [][/\ IsErrorEvent /\ EndedBeforeAnyWrite =>
          /\ onErrorCalls' = onErrorCalls
          /\ ended'.state = "rejected"
          /\ ended'.err \in Errs
     /\ EndedBeforeAnyWrite' =>
          /\ ~logErrors'
          /\ ended'.state = "resolved" <=> cmd' = "ended"]_vars

\* the encoder errored after an endVideoCapture that preceded every write
C2_Witness ==
  /\ EndedBeforeAnyWrite
  /\ cmd = "errored"
  /\ onErrorCalls = <<>>
  /\ ended.state = "rejected"

\* C3: a writeVideoFrame call on a session that has not begun ending and
\* whose wantsWrite is false adds exactly 1 to skipped, hands nothing to the
\* sink and leaves wantsWrite false; any other call leaves skipped unchanged.
C3_SkipCountsClosedGateCalls ==
  [][IsWriteCall =>
       IF ~done /\ ~wantsWrite
         THEN skipped' = skipped + 1 /\ pt'.buf = pt.buf /\ wantsWrite' = FALSE
         ELSE skipped' = skipped]_vars

\* a call found the gate closed, and other calls found it open or found done
C3_Witness ==
  /\ skipped = 1
  /\ \E i \in 1..Len(calls) : ~calls[i].done /\ ~calls[i].wants
  /\ \E i \in 1..Len(calls) : calls[i].done

\* C4: once endVideoCapture has been called, a writeVideoFrame call changes
\* neither the sink nor written, wantsWrite or skipped.
C4_NoDeliveryAfterEnd ==
  [][IsWriteCall /\ done =>
       /\ pt' = pt
       /\ written' = written
       /\ wantsWrite' = wantsWrite
       /\ skipped' = skipped]_vars

\* a write call was made after endVideoCapture, with the gate open and with
\* frames delivered before the end
C4_Witness ==
  /\ \E i \in 1..Len(calls) : calls[i].done /\ calls[i].wants
  /\ pt.buf # <<>>

\* C5 as stated: once the encoder has emitted 'error' or 'end' while
\* endVideoCapture was never called, a writeVideoFrame call forwards nothing
\* and does not set written.
C5_NoOpAfterEncoderExit ==
  [][IsWriteCall /\ nEnd = 0 /\ cmd \in {"errored", "ended"} =>
       pt'.buf = pt.buf /\ written' = written]_vars

\* C5 amended: writeVideoFrame is a no-op only after endVideoCapture; once
\* the encoder has emitted 'error' or 'end' while endVideoCapture was never
\* called, a call still sets written and forwards the frame when wantsWrite
\* is true (and counts it as skipped otherwise).
C5_StillWritesAfterEncoderExit ==
  [][IsWriteCall /\ nEnd = 0 /\ cmd \in {"errored", "ended"} =>
       /\ written'
       /\ IF wantsWrite
            THEN pt'.buf = Append(pt.buf, calls'[Len(calls')].frame)
            ELSE pt'.buf = pt.buf /\ skipped' = skipped + 1]_vars

\* a frame was forwarded by a call made after the encoder had errored
C5_Witness ==
  /\ nEnd = 0
  /\ \E i \in 1..Len(calls) : calls[i].enc = "errored" /\ calls[i].wants
  /\ pt.buf # <<>>

\* C6: a second endVideoCapture call changes no session state (done,
\* logErrors, written, wantsWrite, skipped), leaves the one promise as it is
\* and leaves the already ending sink as it is.
C6_SecondEndChangesNothing ==
  [][IsEndCall /\ nEnd >= 1 =>
       /\ done' = done
       /\ logErrors' = logErrors
       /\ written' = written
       /\ wantsWrite' = wantsWrite
       /\ skipped' = skipped
       /\ ended' = ended
       /\ pt' = pt]_vars

\* endVideoCapture was called twice on a session whose gate was closed
C6_Witness == nEnd = 2 /\ ~wantsWrite /\ pt.ending

\* C7: on an encoder 'error' event options.onError is invoked with the error
\* exactly when logErrors is true at that moment, and then the promise is
\* also rejected with the same error.
C7_OnErrorIffLogErrors ==
  [][IsErrorEvent =>
       IF logErrors
         THEN /\ Len(onErrorCalls') = Len(onErrorCalls) + 1
              /\ ended'.state = "rejected"
              /\ ended'.err = onErrorCalls'[Len(onErrorCalls')]
         ELSE onErrorCalls' = onErrorCalls]_vars

\* both cases happened: an error reported to options.onError with frames
\* written, or an error not reported after an early endVideoCapture
C7_Witness ==
  /\ cmd = "errored"
  /\ written
  /\ nEnd > 0
  /\ onErrorCalls # <<>>

\* C8: an endVideoCapture call does not settle the promise; the promise is
\* resolved only once the encoder has emitted 'end' and rejected only once
\* it has emitted 'error', and is pending as long as neither was emitted.
C8_SettledOnlyByEncoderEvents ==
  [][/\ IsEndCall => ended' = ended
     /\ ended'.state = "resolved" => cmd' = "ended"
     /\ ended'.state = "rejected" => cmd' = "errored"
     /\ cmd' \in {"spawning", "started"} => ended'.state = "pending"]_vars

\* endVideoCapture has returned and the encoder has emitted neither event
C8_Witness == nEnd > 0 /\ cmd = "started" /\ ended.state = "pending"

\* ==== properties of the compression pass ===================================

\* the value num / den of an onProgress call lies in [0, 1]
InUnitInterval(c) == 0 <= c.num /\ c.num <= c.den

\* the value of onProgress call a is at most the value of call b
AtMost(a, b) == a.num * b.den <= b.num * a.den

\* the value of an onProgress call is exactly 1
IsOne(c) == c.num = c.den

\* C9: in a run of process() that ends with the encoder's 'end' event, the
\* values passed to onProgress are non-decreasing, all lie in [0,1], and the
\* last one is exactly 1.
C9_ProgressNonDecreasingInUnitInterval ==
  pCmd = "ended" =>
    /\ \A i \in 1..Len(progressCalls) : InUnitInterval(progressCalls[i])
    /\ \A i \in 1..(Len(progressCalls) - 1) :
         AtMost(progressCalls[i], progressCalls[i + 1])
    /\ progressCalls # <<>>
    /\ IsOne(progressCalls[Len(progressCalls)])

\* C10 as stated: when the encoder emits 'error', process() rejects with
\* that error, nothing is moved onto name, and onProgress is not called
\* with 1.
C10_FailedRunNeverReportsOne ==
  pCmd = "errored" =>
    /\ pPromise = [state |-> "rejected", err |-> pErr]
    /\ moveState = "none"
    /\ nameFile = "raw"
    /\ \A i \in 1..Len(progressCalls) : ~IsOne(progressCalls[i])

\* C10 amended: when the encoder emits 'error', process() rejects with that
\* error, nothing is moved onto name, and the 'end' handler's onProgress(1)
\* is not made; a 'progress' event whose timemark equals the total duration
\* may still have reported the value 1 before the failure.
C10_FailedRunLeavesInputUntouched ==
  pCmd = "errored" =>
    /\ pPromise = [state |-> "rejected", err |-> pErr]
    /\ pErr \in Errs
    /\ moveState = "none"
    /\ nameFile = "raw"
    /\ \A i \in 1..Len(progressCalls) : progressCalls[i].by = "progress"

\* a run that reported progress and then failed
C10_Witness ==
  /\ pCmd = "errored"
  /\ pPromise.state = "rejected"
  /\ progressCalls # <<>>

\* the last onProgress call made
LastProgressCall == progressCalls[Len(progressCalls)]

\* C11: on the encoder's 'end' event onProgress(1) is made whether or not
\* the total is known, the move of cname over name is started after it, and
\* the promise of process() is resolved only once that move has completed:
\* never while name still holds the uncompressed content.
C11_ResolvedOnlyAfterMove ==
  /\ pCmd = "ended" =>
       /\ progressCalls # <<>>
       /\ LastProgressCall = [num |-> 1, den |-> 1, by |-> "end"]
       /\ moveState # "none"
  /\ moveState # "none" => pCmd = "ended"
  /\ pPromise.state = "resolved" =>
       moveState = "done" /\ nameFile = "compressed" /\ pThenRan
  /\ moveState = "pending" => pPromise.state = "pending" /\ nameFile = "raw"

\* the encoder has ended with the total never learned and the move is under way
C11_Witness ==
  /\ pCmd = "ended"
  /\ total = NullTotal
  /\ moveState = "pending"
  /\ nameFile = "raw"

\* C12: a failure of the move of cname over name rejects the promise of
\* process(), with the file at name left as it was.
C12_MoveFailureRejects ==
  moveState = "failed" => pPromise.state = "rejected" /\ nameFile = "raw"

\* a step in which the compression encoder emits 'progress'
IsProgressEvent == Len(marks') = Len(marks) + 1

\* C15: a 'progress' event that arrives before the total is known makes no
\* onProgress call and is never replayed later; a 'progress' event that is
\* reported is reported once, as its elapsed seconds over the known total.
C15_NoProgressBeforeTotal ==
  [][/\ IsProgressEvent /\ total = NullTotal => progressCalls' = progressCalls
     /\ IsProgressEvent /\ progressCalls' # progressCalls =>
          /\ total > 0
          /\ progressCalls' = Append(progressCalls,
               [num |-> marks'[Len(marks')], den |-> total, by |-> "progress"])
     /\ ~IsProgressEvent /\ progressCalls' # progressCalls =>
          progressCalls' = Append(progressCalls, [num |-> 1, den |-> 1, by |-> "end"])
    ]_vars

\* a sample was dropped before the total was known and a later one reported
C15_Witness ==
  /\ Len(marks) = 2
  /\ total > 0
  /\ Len(progressCalls) = 1
  /\ progressCalls[1].num = marks[2]
  /\ marks[1] # marks[2]

\* C16: when no codecData event was ever observed, the encoder's 'end' event
\* still starts the move, the continuation of a completed move resolves the
\* promise, the promise is never rejected, and onProgress was invoked
\* exactly once, with 1.
C16_UnknownDurationIsNotFatal ==
  pCmd = "ended" /\ ~pCodecSent =>
    /\ progressCalls = <<[num |-> 1, den |-> 1, by |-> "end"]>>
    /\ moveState \in {"pending", "done", "failed"}
    /\ moveState = "done" => nameFile = "compressed"
    /\ pThenRan => pPromise.state = "resolved"
    /\ pPromise.state = "resolved" => moveState = "done"
    /\ pPromise.state # "rejected"

\* a run without codecData whose progress samples were dropped has resolved
C16_Witness ==
  /\ ~pCodecSent
  /\ Len(marks) >= 1
  /\ moveState = "done"
  /\ pPromise.state = "resolved"

\* ==== further properties of the capture session ============================

\* C14: when the capture encoder has failed without ever reporting 'start',
\* the promise returned by start() is settled, not left pending.
C14_SpawnFailureSettlesStart ==
  cmd = "errored" /\ innerStart = "pending" => startPromise # "pending"

\* C17: wantsWrite is false exactly when one drain listener is pending on the
\* sink, there is never more than one, and wantsWrite is false only while
\* the sink still owes its 'drain' event, so every 'drain' reopens the gate.
C17_GateClosedIffOneDrainListener ==
  /\ pt.drainListeners \in {0, 1}
  /\ ~wantsWrite <=> pt.drainListeners = 1
  /\ ~wantsWrite => pt.needDrain

\* the gate was closed by a write, reopened by a drain, and closed again
C17_Witness ==
  /\ ~wantsWrite
  /\ pt.drainListeners = 1
  /\ Len(pt.buf) = 2
  /\ Len(calls) = 2

\* the writeVideoFrame calls made before endVideoCapture
CallsBeforeEnd == {i \in 1..Len(calls) : ~calls[i].done}

\* C18: the frames handed to the sink plus skipped equal the number of
\* writeVideoFrame calls made before endVideoCapture, and the call whose
\* pt.write returned false has its frame delivered and not counted as skipped.
C18_FrameAccounting ==
  [][/\ Len(pt'.buf) + skipped' = Cardinality(CallsBeforeEnd')
     /\ IsWriteCall /\ wantsWrite /\ ~wantsWrite' =>
          /\ pt'.buf = Append(pt.buf, calls'[Len(calls')].frame)
          /\ skipped' = skipped]_vars

\* one frame closed the gate and was delivered, one was skipped, one came late
C18_Witness ==
  /\ Len(calls) = 3
  /\ Len(pt.buf) = 1
  /\ skipped = 1
  /\ calls[3].done

\* C19: logErrors is false only if endVideoCapture was called and no frame
\* was ever handed to the sink; written implies that a frame was forwarded;
\* and once logErrors is false it stays false.
C19_SuppressionImpliesEmptyInput ==
  [][/\ ~logErrors' => nEnd' > 0 /\ pt'.buf = <<>>
     /\ written' => pt'.buf # <<>>
     /\ ~logErrors => ~logErrors']_vars

\* error reporting is off and write calls were made after the end
C19_Witness ==
  /\ ~logErrors
  /\ nEnd > 0
  /\ calls # <<>>
  /\ pt.buf = <<>>

\* C20 as stated: between start() being called and the encoder's 'start'
\* event a producer can have a writeVideoFrame call accepted.
C20_WritableBeforeStart ==
  cmd = "spawning" => ENABLED (\E data \in Frames, ret \in BOOLEAN : writeVideoFrame(data, ret))

\* C20 amended: the session state is set up at creation, but writeVideoFrame
\* reaches the producer only when the promise of start() resolves, which is
\* on the encoder's 'start' event: no writeVideoFrame call is made, and no
\* frame is in the sink, while the encoder has not reported 'start'.
C20_NoWriteBeforeStart ==
  /\ \A i \in 1..Len(calls) : calls[i].enc # "spawning"
  /\ cmd = "spawning" => startPromise = "pending" /\ calls = <<>> /\ pt.buf = <<>>
  /\ calls # <<>> => startPromise = "resolved"

\* a frame was forwarded by a call made once the encoder had started
C20_Witness ==
  /\ Len(calls) >= 1
  /\ calls[1].enc = "started"
  /\ pt.buf # <<>>

\* ==== properties of the codec probe ========================================

\* the .tap continuation of a delivered codecData has yet to run
TapPending == gInner.state = "resolved" /\ gPromise.state = "pending"

\* C13: the promise returned by getCodecData settles: once the probing
\* encoder has terminated (with 'error' or 'end') and no continuation is
\* left to run, the promise is resolved with the codec data or rejected,
\* not left pending.
C13_ProbeSettles ==
  gCmd # "running" /\ ~TapPending => gPromise.state # "pending"

====
